---- MODULE Spec2Model ----
(***************************************************************************)
(* The GameOfLife widget of src/src/components/GameOfLife.tsx as a state   *)
(* machine: the component's React state, the closures its effects have     *)
(* installed (mouse listeners, keydown listener, interval timer), the      *)
(* canvas, and one action per event handler, timer callback and effect     *)
(* flush.                                                                  *)
(*                                                                         *)
(* React's scheduling, as the component relies on it:                      *)
(*  - a handler runs with the values captured by the closure that was      *)
(*    installed (a listener added by an effect keeps the values of the     *)
(*    render whose effects last ran; a button's onClick is the one of the  *)
(*    last committed render);                                              *)
(*  - setState followed by the re-render and commit is one step;           *)
(*  - the passive effects of a commit run before the next render: an       *)
(*    update made while effects are pending first has them flushed;        *)
(*  - after an update that is no interaction (timer tick, pointer move or  *)
(*    leave, intersection observer, an effect's own setState) the effects  *)
(*    run later (FlushEffects), so an event may arrive in between and meet  *)
(*    the closures of the previous render;                                 *)
(*  - after a discrete event (click, keydown, a button) React renders      *)
(*    synchronously and runs that commit's effects at once (CommitSync).   *)
(* Arrays are functions over 0..n-1, so index arithmetic is the source's.  *)
(*                                                                         *)
(* Left out: the "n" and "f" shortcuts, their buttons and the link, which  *)
(* touch only state owned outside the component (setShowName, the          *)
(* document's fullscreen element) and none of the variables below.         *)
(***************************************************************************)
EXTENDS Integers, FiniteSets, Sequences, TLC

\* ------------------------------------------------------------------ bounds
\* The grid of the model: NumRows x NumCols cells stand for the source's
\* 108 x 192 (HEIGHT / CELL_SIZE x WIDTH / CELL_SIZE).
NumRows == 4
NumCols == 5
\* The default glider anchor, 50 in the source (row and column), scaled with
\* the grid so that, as in the source, its 3x3 footprint lies inside the grid.
DefaultAnchor == 1
\* Cell toggles and glider insertions per behaviour.
MaxEdits == 1
\* SpecGrid starts from the grids with at most MaxLive live cells (and the
\* grids whose live cells lie around the corner), and runs MaxOps operations.
MaxLive == 1
MaxOps == 2

\* --------------------------------------------------------------- constants
CELL_SIZE == 10
HEIGHT == NumRows * CELL_SIZE
WIDTH == NumCols * CELL_SIZE

\* JavaScript values: a cell is a boolean, and undefined wherever an optional
\* lookup (?.[ ]) misses; null and "no closure installed" are the empty
\* sequence, a closure is the one-element sequence of what it captured, and
\* mouseOverCell is <<row, col>>.
JSTrue == "true"
JSFalse == "false"
Undefined == "undefined"
Null == <<>>
JSBool(b) == IF b THEN JSTrue ELSE JSFalse
Truthy(v) == v = JSTrue

\* ------------------------------------------------------------------ arrays
ArrLen(a) == Cardinality(DOMAIN a)

\* Array.from({ length: HEIGHT / CELL_SIZE }, () => Array.from({ length:
\* WIDTH / CELL_SIZE }, () => f)) with the cell's value given by live.
MakeGrid(live) ==
    [r \in 0..((HEIGHT \div CELL_SIZE) - 1) |->
        [c \in 0..((WIDTH \div CELL_SIZE) - 1) |-> JSBool(<<r, c>> \in live)]]

DeadGrid == MakeGrid({})

\* grid[r]?.[c]
At(grid, r, c) ==
    IF r \in DOMAIN grid /\ c \in DOMAIN grid[r] THEN grid[r][c] ELSE Undefined

\* ---------------------------------------------------------- countNeighbors
Offsets == {-1, 0, 1}

NeighborInGrid(nr, nc, numRows, numCols) ==
    nr >= 0 /\ nr < numRows /\ nc >= 0 /\ nc < numCols

countNeighbors_CountsSelf(grid, row, col) ==
    LET numRows == ArrLen(grid)
        numCols == IF 0 \in DOMAIN grid THEN ArrLen(grid[0]) ELSE 0
        neighborsRow(i) == (row + i + numRows) % numRows
        neighborsColumn(j) == (col + j + numCols) % numCols
    IN  Cardinality({ij \in Offsets \X Offsets :
            /\ NeighborInGrid(neighborsRow(ij[1]), neighborsColumn(ij[2]),
                              numRows, numCols)
            /\ Truthy(At(grid, neighborsRow(ij[1]), neighborsColumn(ij[2])))})

countNeighbors(grid, row, col) ==
    LET numRows == ArrLen(grid)
        numCols == IF 0 \in DOMAIN grid THEN ArrLen(grid[0]) ELSE 0
        neighborsRow(i) == (row + i + numRows) % numRows
        neighborsColumn(j) == (col + j + numCols) % numCols
    IN  Cardinality({ij \in Offsets \X Offsets :
            /\ ~(ij[1] = 0 /\ ij[2] = 0)
            /\ NeighborInGrid(neighborsRow(ij[1]), neighborsColumn(ij[2]),
                              numRows, numCols)
            /\ Truthy(At(grid, neighborsRow(ij[1]), neighborsColumn(ij[2])))})

\* -------------------------------------------------------------- updateGrid
NextCell_BirthOnTwo(cell, neighbors) ==
    JSBool(IF Truthy(cell) THEN neighbors = 2 \/ neighbors = 3 ELSE neighbors = 2)

NextCell_SurviveBelowFour(cell, neighbors) ==
    JSBool(IF Truthy(cell) THEN neighbors <= 3 ELSE neighbors = 3)

\* cell ? neighbors === 2 || neighbors === 3 : neighbors === 3
NextCell(cell, neighbors) ==
    JSBool(IF Truthy(cell) THEN neighbors = 2 \/ neighbors = 3 ELSE neighbors = 3)

\* newGrid of updateGrid, computed from the cells its closure captured
updateGrid(grid) ==
    [rowIndex \in DOMAIN grid |->
        [cellIndex \in DOMAIN grid[rowIndex] |->
            NextCell(grid[rowIndex][cellIndex],
                     countNeighbors(grid, rowIndex, cellIndex))]]

\* --------------------------------------------------------------- addGlider
glider ==
    [i \in 0..2 |->
        [j \in 0..2 |->
            JSBool(<<i, j>> \in {<<0, 0>>, <<0, 1>>, <<0, 2>>, <<1, 0>>, <<2, 1>>})]]

InFootprint_OneColumnMore(rowIndex, cellIndex, inputRow, inputColumn) ==
    /\ rowIndex >= inputRow
    /\ rowIndex < inputRow + ArrLen(glider)
    /\ cellIndex >= inputColumn
    /\ cellIndex <= inputColumn + (IF 0 \in DOMAIN glider THEN ArrLen(glider[0]) ELSE 0)

InFootprint(rowIndex, cellIndex, inputRow, inputColumn) ==
    /\ rowIndex >= inputRow
    /\ rowIndex < inputRow + ArrLen(glider)
    /\ cellIndex >= inputColumn
    /\ cellIndex < inputColumn + (IF 0 \in DOMAIN glider THEN ArrLen(glider[0]) ELSE 0)

\* newGrid of addGlider, from the cells and mouseOverCell its closure captured
addGlider(grid, hover) ==
    LET inputRow == IF hover # Null THEN hover[1] ELSE DefaultAnchor
        inputColumn == IF hover # Null THEN hover[2] ELSE DefaultAnchor
    IN  [rowIndex \in DOMAIN grid |->
            [cellIndex \in DOMAIN grid[rowIndex] |->
                IF InFootprint(rowIndex, cellIndex, inputRow, inputColumn)
                THEN At(glider, rowIndex - inputRow, cellIndex - inputColumn)
                ELSE grid[rowIndex][cellIndex]]]

\* -------------------------------------------------------------- toggleCell
\* Math.floor(v / CELL_SIZE); \div rounds towards minus infinity, like floor
CellIndex(v) == v \div CELL_SIZE

\* newCells of toggleCell for a click at canvas pixel (x, y)
toggleCell(grid, x, y) ==
    LET rowIndex == CellIndex(y)
        cellIndex == CellIndex(x)
    IN  [rIndex \in DOMAIN grid |->
            IF rIndex = rowIndex
            THEN [cIndex \in DOMAIN grid[rIndex] |->
                    IF cIndex = cellIndex THEN JSBool(~Truthy(grid[rIndex][cIndex]))
                    ELSE grid[rIndex][cIndex]]
            ELSE grid[rIndex]]

\* ---------------------------------------------------------------- drawGrid
drawGrid_NoViewportCheck(grid, hover, innerW, innerH) ==
    [live |-> {rc \in {<<r, c>> : r \in DOMAIN grid, c \in 0..(NumCols - 1)} :
                  /\ rc[2] \in DOMAIN grid[rc[1]]
                  /\ Truthy(grid[rc[1]][rc[2]])},
     hover |-> hover]

\* What drawGrid leaves on the canvas: the squares filled for live cells
\* inside the window, and the highlight square drawn last.
drawGrid(grid, hover, innerW, innerH) ==
    [live |-> {rc \in {<<r, c>> : r \in DOMAIN grid, c \in 0..(NumCols - 1)} :
                  /\ rc[2] \in DOMAIN grid[rc[1]]
                  /\ ~(rc[2] * CELL_SIZE > innerW \/ rc[1] * CELL_SIZE > innerH)
                  /\ Truthy(grid[rc[1]][rc[2]])},
     hover |-> hover]

\* ------------------------------------------------------------------- state
VARIABLES
    cells,            \* useState<Grid>
    mouseOverCell,    \* useState<[number, number] | null>: <<row, col>> or Null
    systemRunning,    \* useState(true)
    userRunning,      \* useState(true)
    running,          \* useState(true)
    showControls,     \* useState(false)
    inView,           \* useInView({ threshold: 0.1 })
    mounted,          \* the component is mounted
    pending,          \* effects of the last commit that have not run yet
    mouseListeners,   \* closure of the canvas listeners: <<[cells]>>, or Null
    keyListener,      \* closure of the window keydown listener, or Null
    timers,           \* armed intervals: [id, cells captured by updateGrid]
    timer,            \* `timer` of the timer effect that last ran: <<id>> or Null
    canvas,           \* what drawGrid last drew
    innerWidth,       \* window.innerWidth
    innerHeight,      \* window.innerHeight
    edits,            \* cell toggles and glider insertions so far
    hiddenSettled,    \* history: out of view and settled since it left the view
    runningBefore,    \* history: <<running>> when the widget last left the view
    lastOp            \* history (SpecGrid): the last operation and the grid before it

reactState == <<cells, mouseOverCell, systemRunning, userRunning, running, showControls>>
effectState == <<pending, mouseListeners, keyListener, timers, timer, canvas>>
window == <<innerWidth, innerHeight>>
history == <<hiddenSettled, runningBefore, lastOp>>
vars == <<reactState, inView, mounted, effectState, window, edits, history>>

\* The values one render of the component sees.
Render ==
    [cells |-> cells, mouseOverCell |-> mouseOverCell,
     systemRunning |-> systemRunning, userRunning |-> userRunning,
     running |-> running, showControls |-> showControls, inView |-> inView]

Effects == {"draw", "mouse", "keydown", "timer", "inView", "combine"}

\* The grids Math.random() > RANDOM is drawn from here: a triple that wraps
\* around the corner and a blinker.
RandomGrids ==
    {MakeGrid({<<0, 0>>, <<0, 1>>, <<NumRows - 1, NumCols - 1>>}),
     MakeGrid({<<2, 1>>, <<2, 2>>, <<2, 3>>})}

\* Canvas pixels <<x, y>> of the pointer events: the first pixel of column 1
\* in the last pixel row of row 0, and the last pixel of the canvas.
Points ==
    {<<CELL_SIZE, CELL_SIZE - 1>>, <<WIDTH - 1, HEIGHT - 1>>}

\* A pointer position above and left of the canvas origin: event.clientX -
\* rect.left is negative when the canvas starts at a fractional pixel and
\* the event is reported on the pixel before it.
OutsidePoint == <<0 - 1, 0 - 1>>

\* The pointer of Spec stays on the last pixel; SpecGrid uses every point.
SpecPoints == {<<WIDTH - 1, HEIGHT - 1>>}

\* ----------------------------------------------------------------- effects
\* Whether the dependency array of effect e differs between renders old and
\* new; fresh names the state slots that were set to a newly built array
\* (React compares dependencies with Object.is).
DepsChanged(e, old, new, fresh) ==
    LET cellsCh == "cells" \in fresh
        hoverCh == "mouseOverCell" \in fresh \/ old.mouseOverCell # new.mouseOverCell
        updateGridCh == cellsCh
        stepCh == old.running # new.running \/ updateGridCh
        addGliderCh == cellsCh \/ hoverCh
        handleKeyDownCh ==
            \/ old.userRunning # new.userRunning
            \/ stepCh
            \/ old.running # new.running
            \/ old.showControls # new.showControls
            \/ addGliderCh
    IN  CASE e = "draw" -> cellsCh \/ hoverCh
          [] e = "mouse" -> cellsCh
          [] e = "keydown" -> handleKeyDownCh
          [] e = "timer" -> old.running # new.running \/ updateGridCh
          [] e = "inView" -> old.inView # new.inView
          [] e = "combine" ->
                old.systemRunning # new.systemRunning \/ old.userRunning # new.userRunning

\* handleKeyDown with everything it closes over
KeyClosure(R) ==
    [userRunning |-> R.userRunning, running |-> R.running,
     showControls |-> R.showControls, cells |-> R.cells,
     mouseOverCell |-> R.mouseOverCell]

\* clearInterval(timer), timer being <<id>> or Null (undefined)
clearInterval(ts, tm) == {t \in ts : <<t.id>> # tm}

NewTimerId(ts) ==
    IF ts = {} THEN 1
    ELSE 1 + (CHOOSE m \in {t.id : t \in ts} : \A t \in ts : t.id <= m)

\* return () => clearInterval(timer)
TimerCleanup_Leak(ts, tm) == ts

TimerCleanup(ts, tm) == clearInterval(ts, tm)

\* The timer effect's body under render R, after the previous cleanup.
TimerCreate(R, ts) ==
    IF R.running
    THEN LET id == NewTimerId(ts)
         IN  [timers |-> ts \cup {[id |-> id, cells |-> R.cells]}, timer |-> <<id>>]
    ELSE [timers |-> clearInterval(ts, Null), timer |-> Null]

\* if (systemRunning && userRunning) setRunning(true) else setRunning(false)
CombineRunning(R) == R.systemRunning /\ R.userRunning

\* if (!inView) setSystemRunning(false) else setSystemRunning(true)
VisibilityRunning(R) == R.inView

\* The state updates queued by the effects P of render R, applied after the
\* updates already in new.
AfterEffects(P, R, new) ==
    [new EXCEPT !.systemRunning = IF "inView" \in P THEN VisibilityRunning(R) ELSE @,
                !.running = IF "combine" \in P THEN CombineRunning(R) ELSE @]

\* What the effects have installed.
EffState ==
    [canvas |-> canvas, mouseListeners |-> mouseListeners,
     keyListener |-> keyListener, timers |-> timers, timer |-> timer]

\* The effects P of render R run: for each, the cleanup of its previous run
\* and then its body, with the values of R.
RunEffects(P, R, E) ==
    LET te == IF "timer" \in P
              THEN TimerCreate(R, TimerCleanup(E.timers, E.timer))
              ELSE [timers |-> E.timers, timer |-> E.timer]
    IN  [canvas |-> IF "draw" \in P
                    THEN drawGrid(R.cells, R.mouseOverCell, innerWidth, innerHeight)
                    ELSE E.canvas,
         mouseListeners |-> IF "mouse" \in P THEN <<[cells |-> R.cells]>>
                            ELSE E.mouseListeners,
         keyListener |-> IF "keydown" \in P THEN <<KeyClosure(R)>> ELSE E.keyListener,
         timers |-> te.timers,
         timer |-> te.timer]

\* One commit: the effects P still pending from render R run, then the state
\* becomes `new` followed by the updates those effects queued, and the
\* effects whose dependencies changed become pending.
Stage(P, R, E, new, fresh) ==
    LET S == AfterEffects(P, R, new)
    IN  [E |-> RunEffects(P, R, E),
         S |-> S,
         P |-> {e \in Effects : DepsChanged(e, R, S, fresh)}]

Apply(st) ==
    /\ canvas' = st.E.canvas
    /\ mouseListeners' = st.E.mouseListeners
    /\ keyListener' = st.E.keyListener
    /\ timers' = st.E.timers
    /\ timer' = st.E.timer
    /\ cells' = st.S.cells
    /\ mouseOverCell' = st.S.mouseOverCell
    /\ systemRunning' = st.S.systemRunning
    /\ userRunning' = st.S.userRunning
    /\ running' = st.S.running
    /\ showControls' = st.S.showControls
    /\ inView' = st.S.inView
    /\ pending' = st.P
    /\ UNCHANGED <<mounted, window>>

\* An update that does not come from an interaction (timer, pointer move,
\* intersection observer, an effect's own setState): React renders and
\* commits it, and runs its effects later.
\* (The singleton \E binds the staged commit so that it is computed once.)
Commit(new, fresh) ==
    \E n \in {new} :
        \E st \in {Stage(pending, Render, EffState, n, fresh)} : Apply(st)

\* An update made by a discrete event (click, keydown): React renders it
\* synchronously and runs the effects of that commit before the next event;
\* the updates those effects queue are committed with effects pending.
CommitSync(new, fresh) ==
    \E n \in {new} :
        \E s1 \in {Stage(pending, Render, EffState, n, fresh)} :
            \E s2 \in {Stage(s1.P, s1.S, s1.E, s1.S, {})} : Apply(s2)

NoOp == [n |-> 0, op |-> "none", before |-> "none", from |-> <<>>, hover |-> Null, at |-> <<>>]

\* -------------------------------------------------------------------- Init
\* The component after its first render: the state of the useState
\* initialisers, every effect still to run, nothing registered or drawn.
\* The window is smaller than the canvas: the last column starts exactly at
\* innerWidth, the last row one pixel below innerHeight.
Init ==
    /\ cells \in RandomGrids
    /\ mouseOverCell = Null
    /\ systemRunning = TRUE
    /\ userRunning = TRUE
    /\ running = TRUE
    /\ showControls = FALSE
    /\ inView = FALSE
    /\ mounted = TRUE
    /\ pending = Effects
    /\ mouseListeners = Null
    /\ keyListener = Null
    /\ timers = {}
    /\ timer = Null
    /\ canvas = [live |-> {}, hover |-> Null]
    /\ innerWidth = WIDTH - CELL_SIZE
    /\ innerHeight = HEIGHT - CELL_SIZE - 1
    /\ edits = 0
    /\ hiddenSettled = FALSE
    /\ runningBefore = Null
    /\ lastOp = NoOp

\* ----------------------------------------------------------------- actions
\* The passive effects of the last commit run.
FlushEffects ==
    /\ mounted
    /\ pending # {}
    /\ Commit(Render, {})
    /\ UNCHANGED edits

\* The intersection observer of useInView reports a change.
InViewChange ==
    /\ mounted
    /\ Commit([Render EXCEPT !.inView = ~inView], {})
    /\ UNCHANGED edits

\* setInterval(() => updateGrid(), 100) fires.
Tick ==
    /\ \E t \in timers : Commit([Render EXCEPT !.cells = updateGrid(t.cells)], {"cells"})
    /\ UNCHANGED edits

\* canvas "click": toggleCell
ClickCellAt(p) ==
    /\ mouseListeners # Null
    /\ edits < MaxEdits
    /\ CommitSync([Render EXCEPT
                     !.cells = toggleCell(mouseListeners[1].cells, p[1], p[2])],
                  {"cells"})
    /\ edits' = edits + 1

ClickCell == \E p \in SpecPoints : ClickCellAt(p)

\* canvas "mousemove": handleMouseOver
MouseMoveAt(p) ==
    /\ mouseListeners # Null
    /\ Commit([Render EXCEPT !.mouseOverCell = <<CellIndex(p[2]), CellIndex(p[1])>>],
              {"mouseOverCell"})
    /\ UNCHANGED edits

MouseMove == \E p \in SpecPoints : MouseMoveAt(p)

\* canvas "mouseout": handleMouseOut
MouseOut ==
    /\ mouseListeners # Null
    /\ Commit([Render EXCEPT !.mouseOverCell = Null], {})
    /\ UNCHANGED edits

\* case " ": setUserRunning(!userRunning)
KeySpace ==
    /\ keyListener # Null
    /\ CommitSync([Render EXCEPT !.userRunning = ~keyListener[1].userRunning], {})
    /\ UNCHANGED edits

\* case "r": random()
KeyR ==
    /\ keyListener # Null
    /\ \E g \in RandomGrids : CommitSync([Render EXCEPT !.cells = g], {"cells"})
    /\ UNCHANGED edits

KeyC_CallsRandom ==
    /\ keyListener # Null
    /\ \E g \in RandomGrids : CommitSync([Render EXCEPT !.cells = g], {"cells"})
    /\ UNCHANGED edits

\* case "c": clear()
KeyC ==
    /\ keyListener # Null
    /\ CommitSync([Render EXCEPT !.cells = DeadGrid], {"cells"})
    /\ UNCHANGED edits

\* step of the closure c: if (running) return; updateGrid()
StepFrom(c) ==
    IF c.running
    THEN UNCHANGED <<reactState, inView, mounted, effectState, window>>
    ELSE CommitSync([Render EXCEPT !.cells = updateGrid(c.cells)], {"cells"})

\* case "s": step()
KeyS ==
    /\ keyListener # Null
    /\ StepFrom(keyListener[1])
    /\ UNCHANGED edits

\* case "p": setRunning(!running)
KeyP ==
    /\ keyListener # Null
    /\ CommitSync([Render EXCEPT !.running = ~keyListener[1].running], {})
    /\ UNCHANGED edits

KeyM_AlsoSetsRunning ==
    /\ keyListener # Null
    /\ CommitSync([Render EXCEPT !.showControls = ~keyListener[1].showControls,
                                 !.running = ~keyListener[1].running], {})
    /\ UNCHANGED edits

\* case "m": setShowControls(!showControls)
KeyM ==
    /\ keyListener # Null
    /\ CommitSync([Render EXCEPT !.showControls = ~keyListener[1].showControls], {})
    /\ UNCHANGED edits

\* case "g": addGlider()
KeyG ==
    /\ keyListener # Null
    /\ edits < MaxEdits
    /\ CommitSync([Render EXCEPT
                 !.cells = addGlider(keyListener[1].cells, keyListener[1].mouseOverCell)],
              {"cells"})
    /\ edits' = edits + 1

\* The buttons take the handlers of the last committed render.
\* Menu / Hide Menu button
MenuClick ==
    /\ mounted
    /\ CommitSync([Render EXCEPT !.showControls = ~showControls], {})
    /\ UNCHANGED edits

\* Pause / Start button: handleRunClick
RunClick ==
    /\ mounted /\ showControls
    /\ CommitSync([Render EXCEPT !.userRunning = ~userRunning], {})
    /\ UNCHANGED edits

\* Step button
StepClick ==
    /\ mounted /\ showControls
    /\ StepFrom(Render)
    /\ UNCHANGED edits

\* Random button
RandomClick ==
    /\ mounted /\ showControls
    /\ \E g \in RandomGrids : CommitSync([Render EXCEPT !.cells = g], {"cells"})
    /\ UNCHANGED edits

\* Clear button
ClearClick ==
    /\ mounted /\ showControls
    /\ CommitSync([Render EXCEPT !.cells = DeadGrid], {"cells"})
    /\ UNCHANGED edits

\* Add Glider button
GliderClick ==
    /\ mounted /\ showControls
    /\ edits < MaxEdits
    /\ CommitSync([Render EXCEPT !.cells = addGlider(cells, mouseOverCell)], {"cells"})
    /\ edits' = edits + 1

Unmount_KeepsKeydown ==
    /\ mounted
    /\ mounted' = FALSE
    /\ LET E == RunEffects(pending, Render, EffState)
       IN  /\ timers' = TimerCleanup(E.timers, E.timer)
           /\ timer' = E.timer
           /\ canvas' = E.canvas
           /\ keyListener' = IF "keydown" \in pending THEN E.keyListener ELSE keyListener
    /\ mouseListeners' = Null
    /\ pending' = {}
    /\ UNCHANGED <<reactState, inView, window, edits>>

\* The component unmounts: React runs the effects still pending and then
\* every effect's cleanup; the observer is disconnected.
Unmount ==
    /\ mounted
    /\ mounted' = FALSE
    /\ LET E == RunEffects(pending, Render, EffState)
       IN  /\ timers' = TimerCleanup(E.timers, E.timer)
           /\ timer' = E.timer
           /\ canvas' = E.canvas
    /\ mouseListeners' = Null
    /\ keyListener' = Null
    /\ pending' = {}
    /\ UNCHANGED <<reactState, inView, window, edits>>

\* The history variables, which no action reads. hiddenSettled: the widget is
\* out of view and its effects have settled at some point since it left.
\* runningBefore: the value of running when the widget left the view with
\* its effects settled, kept until a run/pause input (space, "p", the
\* Pause/Start button) or the first event after it is back and settled.
History(runPauseInput) ==
    /\ hiddenSettled' = (mounted' /\ ~inView' /\ (pending' = {} \/ hiddenSettled))
    /\ runningBefore' =
          IF runPauseInput \/ ~mounted' THEN Null
          ELSE IF inView /\ ~inView'
               THEN (IF pending = {} THEN <<running>> ELSE Null)
          ELSE IF inView /\ inView' /\ pending = {} THEN Null
          ELSE runningBefore
    /\ UNCHANGED lastOp

Next ==
    \/ FlushEffects /\ History(FALSE)
    \/ InViewChange /\ History(FALSE)
    \/ KeyS /\ History(FALSE)
    \/ StepClick /\ History(FALSE)
    \/ Tick /\ History(FALSE)
    \/ ClickCell /\ History(FALSE)
    \/ MouseMove /\ History(FALSE)
    \/ MouseOut /\ History(FALSE)
    \/ KeySpace /\ History(TRUE)
    \/ KeyR /\ History(FALSE)
    \/ KeyC /\ History(FALSE)
    \/ KeyP /\ History(TRUE)
    \/ KeyM /\ History(FALSE)
    \/ KeyG /\ History(FALSE)
    \/ MenuClick /\ History(FALSE)
    \/ RunClick /\ History(TRUE)
    \/ RandomClick /\ History(FALSE)
    \/ ClearClick /\ History(FALSE)
    \/ GliderClick /\ History(FALSE)
    \/ Unmount /\ History(FALSE)

Spec == Init /\ [][Next]_vars

\* ------------------------------------------------------ the timer, fairly
\* The simulation, from the state in view and running with every effect
\* run, under randomize, clear, run/pause, the menu, the pointer and the
\* intersection observer, with the fairness the browser gives: an interval that stays
\* armed fires (setInterval, 100 ms), one that is cleared before then does
\* not; pending effects do run. The grids are the generations of the random
\* grids and of the cleared grid, so that every interval that can be armed
\* is named by IntervalTimers.
RECURSIVE Generations(_)
Generations(S) ==
    LET T == S \cup {updateGrid(g) : g \in S}
    IN  IF T = S THEN S ELSE Generations(T)

IntervalTimers == {[id |-> 1, cells |-> g] : g \in Generations(RandomGrids \cup {DeadGrid})}

\* The interval t fires.
TickOf(t) ==
    /\ t \in timers
    /\ Commit([Render EXCEPT !.cells = updateGrid(t.cells)], {"cells"})
    /\ UNCHANGED edits

InitLive ==
    /\ cells \in RandomGrids
    /\ mouseOverCell = Null
    /\ systemRunning = TRUE
    /\ userRunning = TRUE
    /\ running = TRUE
    /\ showControls = FALSE
    /\ inView = TRUE
    /\ mounted = TRUE
    /\ pending = {}
    /\ mouseListeners = <<[cells |-> cells]>>
    /\ keyListener = <<KeyClosure(Render)>>
    /\ timers = {[id |-> 1, cells |-> cells]}
    /\ timer = <<1>>
    /\ innerWidth = WIDTH - CELL_SIZE
    /\ innerHeight = HEIGHT - CELL_SIZE - 1
    /\ canvas = drawGrid(cells, mouseOverCell, innerWidth, innerHeight)
    /\ edits = 0
    /\ hiddenSettled = FALSE
    /\ runningBefore = Null
    /\ lastOp = NoOp

NextLive ==
    \/ FlushEffects /\ History(FALSE)
    \/ Tick /\ History(FALSE)
    \/ KeyR /\ History(FALSE)
    \/ KeyC /\ History(FALSE)
    \/ KeyM /\ History(FALSE)
    \/ MenuClick /\ History(FALSE)
    \/ RandomClick /\ History(FALSE)
    \/ ClearClick /\ History(FALSE)
    \/ MouseMove /\ History(FALSE)
    \/ MouseOut /\ History(FALSE)
    \/ KeySpace /\ History(TRUE)
    \/ RunClick /\ History(TRUE)
    \/ InViewChange /\ History(FALSE)

SpecLive ==
    /\ InitLive
    /\ [][NextLive]_vars
    /\ WF_vars(FlushEffects /\ History(FALSE))
    /\ \A t \in IntervalTimers : WF_vars(TickOf(t) /\ History(FALSE))

\* --------------------------------------------------------- the grid alone
\* The grid operations applied to grids drawn from a larger set: the widget
\* in view, paused, the menu open, every effect run, and then MaxOps
\* operations, lastOp keeping the last one, the grid it started from and
\* the operation before it.
RECURSIVE LiveSets(_)
LiveSets(n) ==
    IF n = 0 THEN {{}}
    ELSE LET S == LiveSets(n - 1)
         IN  S \cup {L \cup {rc} : L \in S, rc \in (0..(NumRows - 1)) \X (0..(NumCols - 1))}

CornerSets == SUBSET ({NumRows - 1, 0, 1} \X {NumCols - 1, 0, 1})

\* The 2x2 blocks that touch no edge of the grid.
BlockAt(r, c) == {<<r, c>>, <<r, c + 1>>, <<r + 1, c>>, <<r + 1, c + 1>>}

InnerBlocks == {BlockAt(r, c) : r \in 1..(NumRows - 3), c \in 1..(NumCols - 3)}

GridInputs == {MakeGrid(L) : L \in LiveSets(MaxLive) \cup CornerSets \cup InnerBlocks}

InitGrid ==
    /\ cells \in GridInputs
    /\ mouseOverCell = Null
    /\ systemRunning = TRUE
    /\ userRunning = FALSE
    /\ running = FALSE
    /\ showControls = TRUE
    /\ inView = TRUE
    /\ mounted = TRUE
    /\ pending = {}
    /\ mouseListeners = <<[cells |-> cells]>>
    /\ keyListener = <<KeyClosure(Render)>>
    /\ timers = {}
    /\ timer = Null
    /\ innerWidth = WIDTH - CELL_SIZE
    /\ innerHeight = HEIGHT - CELL_SIZE - 1
    /\ canvas = drawGrid(cells, mouseOverCell, innerWidth, innerHeight)
    /\ edits = 0
    /\ hiddenSettled = FALSE
    /\ runningBefore = Null
    /\ lastOp = NoOp

GridOp(op, p) ==
    /\ lastOp.n < MaxOps
    /\ lastOp' = [n |-> lastOp.n + 1, op |-> op, before |-> lastOp.op,
                  from |-> cells, hover |-> mouseOverCell, at |-> p]
    /\ UNCHANGED <<hiddenSettled, runningBefore>>

NextGrid ==
    \/ FlushEffects /\ UNCHANGED history
    \/ StepClick /\ GridOp("step", <<>>)
    \/ KeyS /\ GridOp("step", <<>>)
    \/ ClearClick /\ GridOp("clear", <<>>)
    \/ KeyC /\ GridOp("clear", <<>>)
    \/ \E p \in Points : ClickCellAt(p) /\ GridOp("click", p)
    \/ \E p \in Points \cup {OutsidePoint} : MouseMoveAt(p) /\ GridOp("move", p)
    \/ MouseOut /\ GridOp("out", <<>>)
    \/ KeyG /\ GridOp("glider", <<>>)
    \/ GliderClick /\ GridOp("glider", <<>>)

SpecGrid == InitGrid /\ [][NextGrid]_vars

\* ------------------------------------------------------------------ claims
\* Every effect of the last commit has run.
Settled == mounted /\ pending = {}

\* C1: in every settled state, running is true if and only if userRunning
\* and systemRunning are both true.
C1_RunningIsUserAndSystem ==
    Settled => (running <=> (userRunning /\ systemRunning))

\* C2: once the widget is out of view and settled, no timer tick replaces
\* the grid until it is in view again, whatever is pressed meanwhile.
C2_NoTickWhileHidden ==
    [][hiddenSettled => ~Tick]_vars

\* C4: the grid updateGrid produces has the dimensions of the grid it starts
\* from, and each cell is alive iff it was alive with 2 or 3 live neighbours
\* or dead with exactly 3, the neighbours being the 8 cells at
\* ((r+i) mod rows, (c+j) mod cols).
LiveNeighbours(G, r, c) ==
    Cardinality({ij \in (Offsets \X Offsets) \ {<<0, 0>>} :
        G[(r + ij[1]) % NumRows][(c + ij[2]) % NumCols] = JSTrue})

Conway(G, N) ==
    /\ DOMAIN N = 0..(NumRows - 1)
    /\ \A r \in 0..(NumRows - 1) :
         /\ DOMAIN N[r] = 0..(NumCols - 1)
         /\ \A c \in 0..(NumCols - 1) :
              /\ N[r][c] \in {JSTrue, JSFalse}
              /\ N[r][c] = JSTrue <=>
                    \/ G[r][c] = JSTrue /\ LiveNeighbours(G, r, c) \in {2, 3}
                    \/ G[r][c] = JSFalse /\ LiveNeighbours(G, r, c) = 3

C4_UpdateGridIsConway ==
    lastOp.op = "step" => Conway(lastOp.from, cells)

\* A step gave birth to cell (0,0), dead before, one of whose three live
\* neighbours was the opposite corner (rows-1, cols-1).
C4_Witness ==
    /\ lastOp.op = "step"
    /\ lastOp.from[0][0] = JSFalse
    /\ lastOp.from[NumRows - 1][NumCols - 1] = JSTrue
    /\ cells[0][0] = JSTrue

\* C5: Step (the "s" key or the Step button) replaces the grid with one
\* application of the transition when running is false, and changes nothing
\* when running is true.
C5_StepOnlyWhenPaused ==
    [][(KeyS \/ StepClick) =>
          IF running
          THEN UNCHANGED <<reactState, inView, mounted, effectState, window>>
          ELSE cells' = updateGrid(cells)]_vars

\* C3: after the widget has left the view and come back, with no run/pause
\* input in between, the simulation is running exactly when it was running
\* before it left.
C3_RunningAgainAsBefore ==
    (Settled /\ inView /\ runningBefore # Null) => running = runningBefore[1]

\* The frame half of C3, which the code keeps: the observer's report and
\* the effects it triggers never change userRunning.
C3_VisibilityLeavesUserRunning ==
    [][(InViewChange \/ FlushEffects) => userRunning' = userRunning]_vars

\* C6: the grid always has HEIGHT / CELL_SIZE rows of WIDTH / CELL_SIZE
\* boolean cells each.
C6_GridShape ==
    /\ DOMAIN cells = 0..((HEIGHT \div CELL_SIZE) - 1)
    /\ \A r \in DOMAIN cells :
         /\ DOMAIN cells[r] = 0..((WIDTH \div CELL_SIZE) - 1)
         /\ \A c \in DOMAIN cells[r] : cells[r][c] \in {JSTrue, JSFalse}

\* A glider was inserted with the pointer over the last cell of the grid, so
\* that only one cell of its footprint lies inside the grid.
C6_Witness ==
    /\ edits = 1
    /\ mouseOverCell = <<NumRows - 1, NumCols - 1>>
    /\ cells = [DeadGrid EXCEPT ![NumRows - 1][NumCols - 1] = JSTrue]

\* C7: a click at canvas pixel (x, y) flips the cell (floor(y/10),
\* floor(x/10)) and leaves every other cell as it was (so that a second
\* click at the same pixel restores the grid).
FlipOnly(G, r, c) ==
    [i \in DOMAIN G |-> [j \in DOMAIN G[i] |->
        IF i = r /\ j = c THEN (IF G[i][j] = JSTrue THEN JSFalse ELSE JSTrue)
        ELSE G[i][j]]]

C7_ClickFlipsOneCell ==
    [][\A p \in Points :
          ClickCellAt(p) =>
             cells' = FlipOnly(cells, p[2] \div CELL_SIZE, p[1] \div CELL_SIZE)]_vars

\* C8: with the anchor at HoverCell if it is set and at the default anchor
\* otherwise, and the anchor's 3x3 footprint inside the grid, Insert glider
\* makes the footprint the pattern and leaves every other cell as it was.
GliderPattern == {<<0, 0>>, <<0, 1>>, <<0, 2>>, <<1, 0>>, <<2, 1>>}

Anchor == IF mouseOverCell # Null THEN mouseOverCell ELSE <<DefaultAnchor, DefaultAnchor>>

FootprintInside(a) ==
    /\ a[1] >= 0 /\ a[1] + 2 <= NumRows - 1
    /\ a[2] >= 0 /\ a[2] + 2 <= NumCols - 1

WithGlider(G, a) ==
    [r \in DOMAIN G |-> [c \in DOMAIN G[r] |->
        IF r - a[1] \in 0..2 /\ c - a[2] \in 0..2
        THEN (IF <<r - a[1], c - a[2]>> \in GliderPattern THEN JSTrue ELSE JSFalse)
        ELSE G[r][c]]]

C8_GliderAtAnchor ==
    [][(KeyG \/ GliderClick) =>
          (FootprintInside(Anchor) => cells' = WithGlider(cells, Anchor))]_vars

\* C9: in every settled state an interval timer is armed iff running is
\* true, and never is more than one interval timer armed.
C9_OneTimerIffRunning ==
    /\ Cardinality(timers) <= 1
    /\ Settled => ((timers # {}) <=> running)

\* Running and settled after the grid was edited: the timer effect has
\* re-run, and the one armed timer holds the current grid.
C9_Witness ==
    /\ Settled /\ running /\ edits = 1
    /\ timers = {[id |-> 1, cells |-> cells]}

\* C10: once the widget is unmounted no interval timer and no click,
\* mousemove, mouseout or keydown listener of it remains, and the state
\* does not change any more.
C10_NothingLeftAfterUnmount ==
    /\ [](~mounted => (timers = {} /\ mouseListeners = Null /\ keyListener = Null))
    /\ [][~mounted => UNCHANGED vars]_vars

\* Unmounted in view, after an edit, while the timer effect held an armed
\* timer: the timer it had armed is gone.
C10_Witness ==
    ~mounted /\ inView /\ running /\ edits = 1 /\ timer # Null /\ timers = {}

\* C11: every grid-mutating callback (timer tick, click, step, glider key)
\* computes its new grid from the grid committed last, so that no earlier
\* update is lost: the grid after the callback is its operation applied to
\* the grid before it.
C11_NoLostUpdate ==
    [][/\ Tick => cells' = updateGrid(cells)
       /\ \A p \in Points :
             ClickCellAt(p) => cells' = toggleCell(cells, p[1], p[2])
       /\ KeyS => (cells' = cells \/ cells' = updateGrid(cells))
       /\ KeyG => cells' = addGlider(cells, mouseOverCell)]_vars

\* All cells of G dead, G having the dimensions of the grid.
AllDead(G) ==
    /\ DOMAIN G = 0..(NumRows - 1)
    /\ \A r \in DOMAIN G :
         /\ DOMAIN G[r] = 0..(NumCols - 1)
         /\ \A c \in DOMAIN G[r] : G[r][c] = JSFalse

\* C12: while running is false, Clear followed by Step leaves the grid
\* all-dead with its dimensions unchanged.
C12_ClearThenStepIsDead ==
    (lastOp.op = "step" /\ lastOp.before = "clear" /\ ~running) => AllDead(cells)

\* A Step right after a Clear, with the effects of the Step run.
C12_Witness ==
    /\ lastOp.op = "step" /\ lastOp.before = "clear"
    /\ ~running /\ Settled
    /\ AllDead(cells)

\* The live cells of G.
Live(G) == {rc \in (DOMAIN G) \X (0..(NumCols - 1)) : G[rc[1]][rc[2]] = JSTrue}

\* L is a 2x2 block no cell of which lies in the first or last row or column.
IsInnerBlock(L) ==
    \E r \in 1..(NumRows - 3), c \in 1..(NumCols - 3) :
        L = {<<r, c>>, <<r, c + 1>>, <<r + 1, c>>, <<r + 1, c + 1>>}

\* C13: a grid whose only live cells are a 2x2 block away from every edge
\* is a fixed point of the transition, for one application and for two.
C13_BlockIsFixedPoint ==
    (lastOp.op = "step" /\ IsInnerBlock(Live(lastOp.from))) => cells = lastOp.from

\* Two Steps in a row from a block: the grid is still the block.
C13_Witness ==
    /\ lastOp.op = "step" /\ lastOp.before = "step"
    /\ IsInnerBlock(Live(lastOp.from))
    /\ IsInnerBlock(Live(cells))

\* C14: the transition of a grid with exactly one live cell, wherever the
\* cell is, is the all-dead grid.
C14_SingleCellDies ==
    (lastOp.op = "step" /\ Cardinality(Live(lastOp.from)) = 1) => AllDead(cells)

\* A Step from the grid whose one live cell is the last cell, in the corner.
C14_Witness ==
    /\ lastOp.op = "step"
    /\ Live(lastOp.from) = {<<NumRows - 1, NumCols - 1>>}
    /\ AllDead(cells)

\* C15: if running stays true from some point on, the timer keeps firing:
\* the grid is replaced by its transition infinitely often, also while
\* randomize and clear keep replacing the grid.
C15_TicksForever ==
    <>[]running => []<><<Tick>>_vars

\* C16: while the widget is in view and settled, every Toggle run (the
\* space key or the Start/Pause button) flips userRunning and flips running,
\* no pending effect being left that could change running again; so the
\* Start/Pause label, running ? "Pause" : "Start", names what the toggle does.
C16_ToggleRunFlipsRunning ==
    [][((KeySpace \/ RunClick) /\ inView /\ Settled) =>
          /\ userRunning' = ~userRunning
          /\ running' = ~running
          /\ pending' \cap {"inView", "combine"} = {}]_vars

\* C17: when the anchor's 3x3 footprint is not inside the grid (it crosses
\* the bottom or right edge, or the hover anchor is negative), Insert glider
\* does not wrap around: the footprint cells inside the grid take the
\* matching pattern cells, every other cell is as it was, and every cell is
\* a boolean.
C17_GliderClippedAtEdge ==
    [][((KeyG \/ GliderClick) /\ ~FootprintInside(Anchor)) =>
          /\ cells' = WithGlider(cells, Anchor)
          /\ \A r \in DOMAIN cells' : \A c \in DOMAIN cells'[r] :
                cells'[r][c] \in {JSTrue, JSFalse}]_vars

\* The part of C17 the code keeps: the Add Glider button, whose handler is
\* the one of the last render, clips the pattern at the edge.
C17_ButtonGliderClipped ==
    [][(GliderClick /\ ~FootprintInside(Anchor)) =>
          cells' = WithGlider(cells, Anchor)]_vars

\* C18: Randomize, Clear, a cell toggle, Insert glider, pointer move,
\* pointer leave and Toggle menu leave userRunning, systemRunning and running
\* as they are, and Toggle menu changes nothing but showControls. (An effect
\* of an earlier visibility or run/pause change that is still pending runs
\* before the operation's render and is not part of the operation: the
\* operations are taken where no such effect is pending. Each conjunct reads
\* "the frame holds, or the step is none of these operations".)
RunFlagEffectsRun == pending \cap {"inView", "combine"} = {}

C18_EditsLeaveRunFlags ==
    [][RunFlagEffectsRun =>
          /\ \/ UNCHANGED <<userRunning, systemRunning, running>>
             \/ ~(\/ KeyR \/ RandomClick \/ KeyC \/ ClearClick \/ ClickCell
                  \/ KeyG \/ GliderClick \/ MouseMove \/ MouseOut
                  \/ KeyM \/ MenuClick)
          /\ \/ /\ showControls' = ~showControls
                /\ UNCHANGED <<cells, mouseOverCell, userRunning, systemRunning,
                               running, inView, mounted>>
             \/ ~(KeyM \/ MenuClick)]_vars

\* The menu is open, a cell was edited and the pointer is over the canvas,
\* and the simulation runs as the user and the visibility say.
C18_Witness ==
    /\ Settled /\ showControls /\ edits = 1 /\ mouseOverCell # Null
    /\ userRunning /\ systemRunning /\ running

\* C19: every change of the grid or of the hover cell is followed by a full
\* redraw before the next such change is applied, so that in every settled
\* state the canvas shows exactly the live cells of the current grid whose
\* pixel position (col * CELL_SIZE, row * CELL_SIZE) lies within the window
\* (at most innerWidth, innerHeight), and the highlight of the hover cell.
Shown(G, hover) ==
    [live |-> {rc \in (0..(NumRows - 1)) \X (0..(NumCols - 1)) :
                  /\ G[rc[1]][rc[2]] = JSTrue
                  /\ rc[2] * CELL_SIZE <= innerWidth
                  /\ rc[1] * CELL_SIZE <= innerHeight},
     hover |-> hover]

====
